---- MODULE Spec2Model ----
(***************************************************************************)
(* Model of merging_logs.py: a two-way streaming merge of two JSONL log    *)
(* files into <output_dir>/merged_log.jsonl.                               *)
(*                                                                         *)
(* A run of main() is a process r.  Its steps are the points at which      *)
(* control passes between main, create_output_file and the generator       *)
(* sorted_log_generator (which only executes when the writer pulls it).    *)
(***************************************************************************)
EXTENDS Integers, Sequences, FiniteSets

\* ------------------------------------------------------------------ bounds
MaxLen == 2
MaxTime == 2

Procs == {1, 2}
Sides == {1, 2}

\* ------------------------------------------------------------ Python values
\* A decoded JSON value as far as the program looks at it:
\*   tag  "None" (Python None) or "dict"
\*   ts   the "timestamp" key: "absent", "malformed" (a string strptime
\*        rejects) or "ok" (a string in DATE_TIME_FORMAT denoting instant t)
\*   m    whether the dict has any other key
NoneVal == [tag |-> "None", ts |-> "absent", t |-> 0, m |-> FALSE]
EmptyDict == [tag |-> "dict", ts |-> "absent", t |-> 0, m |-> FALSE]
NoTsDict == [tag |-> "dict", ts |-> "absent", t |-> 0, m |-> TRUE]
BadTsDict == [tag |-> "dict", ts |-> "malformed", t |-> 0, m |-> TRUE]
LogDict(t) == [tag |-> "dict", ts |-> "ok", t |-> t, m |-> TRUE]

Times == 1..MaxTime
Dicts == {EmptyDict, NoTsDict, BadTsDict} \cup {LogDict(t) : t \in Times}

\* A line of a file: its JSON text is known by the value it denotes and by
\* its formatting.  "compact" is text without spaces after separators,
\* "dumps" is the text json.dumps produces, "invalid" is not JSON at all.
InvalidLine == [fmt |-> "invalid", val |-> NoneVal]
InputLine(v) == [fmt |-> "compact", val |-> v]
InputLines == {InvalidLine} \cup {InputLine(v) : v \in Dicts}

\* json.loads(line)
json_loads(line) ==
    IF line.fmt = "invalid"
    THEN [ok |-> FALSE, val |-> NoneVal]
    ELSE [ok |-> TRUE, val |-> line.val]

\* json.dumps(log_entry).encode('utf-8') + b'\n'
json_dumps(v) == [fmt |-> "dumps", val |-> v]

\* Python truth value of a slot: None and the empty dict are false.
Truthy(v) == v.tag = "dict" /\ (v.ts # "absent" \/ v.m)

\* get_log_time: datetime.strptime(log_instance.get('timestamp'), FORMAT)
get_log_time(v) ==
    CASE v.ts = "absent"    -> [err |-> "TypeError", instant |-> 0]
      [] v.ts = "malformed" -> [err |-> "ValueError", instant |-> 0]
      [] OTHER              -> [err |-> "none", instant |-> v.t]

\* ------------------------------------------------------------------- state
VARIABLES
    files,        \* files[s]: the lines of input s (read-only during a run)
    isFile,       \* isFile[s]: Path.is_file() of input s
    dirExists,    \* the output directory exists
    fileExists,   \* merged_log.jsonl exists inside it
    fileContent,  \* its lines
    fs0,          \* the output target as it was before any run started
    pc,           \* pc[r]: where run r is
    err,          \* err[r]: the exception that ended run r, or "none"
    rpos,         \* rpos[r][s]: records run r's reader s has yielded
    slot,         \* slot[r][s]: file_log1 / file_log2
    pending,      \* pending[r]: the record yielded to the writer and its side
    emitted       \* emitted[r]: <<side, index>> of every record yielded

vars == <<files, isFile, dirExists, fileExists, fileContent, fs0,
          pc, err, rpos, slot, pending, emitted>>

fsVars == <<dirExists, fileExists, fileContent>>
inVars == <<files, isFile, fs0>>

SeqsUpTo(S, n) == UNION {[1..k -> S] : k \in 0..n}

OldLine == json_dumps(NoTsDict)

NoPending == [side |-> 0, val |-> NoneVal]

\* ----------------------------------------------------------------- helpers
\* An uncaught exception ends the run; `with` closes the output file, and
\* nothing is removed.
Raise(r, e) ==
    /\ pc' = [pc EXCEPT ![r] = "failed"]
    /\ err' = [err EXCEPT ![r] = e]

\* next_log that also catches the decode error and reports end of file
next_log_lenient(r, s) ==
    LET n == rpos[r][s] IN
    IF n < Len(files[s]) /\ json_loads(files[s][n + 1]).ok
    THEN [err |-> "none", val |-> json_loads(files[s][n + 1]).val, pulled |-> 1]
    ELSE [err |-> "none", val |-> NoneVal, pulled |-> 0]

\* next_log(generator of side s): the reader's next record, None at end of
\* file, or the JSONDecodeError of open_file_generator.
next_log(r, s) ==
    LET n == rpos[r][s] IN
    IF n < Len(files[s])
    THEN LET d == json_loads(files[s][n + 1]) IN
         IF d.ok
         THEN [err |-> "none", val |-> d.val, pulled |-> 1]
         ELSE [err |-> "JSONDecodeError", val |-> NoneVal, pulled |-> 0]
    ELSE [err |-> "none", val |-> NoneVal, pulled |-> 0]

\* file_logS = next_log(file_logS_generator), then continue at `next`
Pull(r, s, next) ==
    LET res == next_log(r, s) IN
    IF res.err # "none"
    THEN /\ Raise(r, res.err)
         /\ UNCHANGED <<rpos, slot>>
    ELSE /\ slot' = [slot EXCEPT ![r][s] = res.val]
         /\ rpos' = [rpos EXCEPT ![r][s] = @ + res.pulled]
         /\ pc' = [pc EXCEPT ![r] = next]
         /\ UNCHANGED err

\* file.write at the handle's own offset
WriteAt(content, n, line) ==
    IF n <= Len(content)
    THEN [content EXCEPT ![n] = line]
    ELSE Append(content, line)

\* ------------------------------------------------------------------ actions
\* Main with `or` in place of `and`: one existing input is enough
MainEither(r) ==
    /\ pc[r] = "start"
    /\ IF isFile[1] \/ isFile[2]
       THEN pc' = [pc EXCEPT ![r] = "check_dir"] /\ UNCHANGED err
       ELSE Raise(r, "InputsMissing")
    /\ UNCHANGED <<inVars, fsVars, rpos, slot, pending, emitted>>

\* main: both inputs must be files, else FileExistsError.  Calling
\* sorted_log_generator only creates the generator; nothing is read yet.
Main(r) ==
    /\ pc[r] = "start"
    /\ IF isFile[1] /\ isFile[2]
       THEN pc' = [pc EXCEPT ![r] = "check_dir"] /\ UNCHANGED err
       ELSE Raise(r, "InputsMissing")
    /\ UNCHANGED <<inVars, fsVars, rpos, slot, pending, emitted>>

\* CheckDir that reuses an existing directory instead of refusing it
CheckDirReuse(r) ==
    /\ pc[r] = "check_dir"
    /\ IF dirExists
       THEN pc' = [pc EXCEPT ![r] = "open_out"]
       ELSE pc' = [pc EXCEPT ![r] = "mkdir"]
    /\ UNCHANGED <<inVars, fsVars, err, rpos, slot, pending, emitted>>

\* create_output_file: if output_dir.exists(): raise FileExistsError
CheckDir(r) ==
    /\ pc[r] = "check_dir"
    /\ IF dirExists
       THEN Raise(r, "DirExists")
       ELSE pc' = [pc EXCEPT ![r] = "mkdir"] /\ UNCHANGED err
    /\ UNCHANGED <<inVars, fsVars, rpos, slot, pending, emitted>>

\* Mkdir with exist_ok=True: an existing directory is accepted
MkdirExistOk(r) ==
    /\ pc[r] = "mkdir"
    /\ dirExists' = TRUE
    /\ pc' = [pc EXCEPT ![r] = "open_out"]
    /\ UNCHANGED <<inVars, fileExists, fileContent, err, rpos, slot, pending, emitted>>

\* output_dir.mkdir(parents=True): raises FileExistsError if it exists by now
Mkdir(r) ==
    /\ pc[r] = "mkdir"
    /\ IF dirExists
       THEN Raise(r, "MkdirExists") /\ UNCHANGED dirExists
       ELSE /\ dirExists' = TRUE
            /\ pc' = [pc EXCEPT ![r] = "open_out"]
            /\ UNCHANGED err
    /\ UNCHANGED <<inVars, fileExists, fileContent, rpos, slot, pending, emitted>>

\* output_file_path.open('wb'): creates or truncates merged_log.jsonl
OpenOutput(r) ==
    /\ pc[r] = "open_out"
    /\ fileExists' = TRUE
    /\ fileContent' = <<>>
    /\ pc' = [pc EXCEPT ![r] = "prime1"]
    /\ UNCHANGED <<inVars, dirExists, err, rpos, slot, pending, emitted>>

\* first pull of the merged generator: file_log1 = next_log(...)
Prime1(r) ==
    /\ pc[r] = "prime1"
    /\ Pull(r, 1, "prime2")
    /\ UNCHANGED <<inVars, fsVars, pending, emitted>>

\* file_log2 = next_log(...)
Prime2(r) ==
    /\ pc[r] = "prime2"
    /\ Pull(r, 2, "loop")
    /\ UNCHANGED <<inVars, fsVars, pending, emitted>>

\* Yield that hands over the other slot's record
YieldOther(r, s) ==
    /\ pending' = [pending EXCEPT ![r] = [side |-> s, val |-> slot[r][3 - s]]]
    /\ emitted' = [emitted EXCEPT ![r] = Append(@, <<3 - s, rpos[r][3 - s]>>)]
    /\ pc' = [pc EXCEPT ![r] = "write"]
    /\ UNCHANGED err

\* yield file_logS
Yield(r, s) ==
    /\ pending' = [pending EXCEPT ![r] = [side |-> s, val |-> slot[r][s]]]
    /\ emitted' = [emitted EXCEPT ![r] = Append(@, <<s, rpos[r][s]>>)]
    /\ pc' = [pc EXCEPT ![r] = "write"]
    /\ UNCHANGED err

\* Compare with the comparison turned round (>=)
CompareReversed(r) ==
    LET t1 == get_log_time(slot[r][1])
        t2 == get_log_time(slot[r][2])
    IN  IF t1.err # "none"
        THEN Raise(r, t1.err) /\ UNCHANGED <<pending, emitted>>
        ELSE IF t2.err # "none"
        THEN Raise(r, t2.err) /\ UNCHANGED <<pending, emitted>>
        ELSE IF t1.instant >= t2.instant
        THEN Yield(r, 1)
        ELSE Yield(r, 2)

\* Compare that drains the first input before the second
CompareLeftFirst(r) ==
    LET t1 == get_log_time(slot[r][1])
        t2 == get_log_time(slot[r][2])
    IN  IF t1.err # "none"
        THEN Raise(r, t1.err) /\ UNCHANGED <<pending, emitted>>
        ELSE IF t2.err # "none"
        THEN Raise(r, t2.err) /\ UNCHANGED <<pending, emitted>>
        ELSE Yield(r, 1)

\* Compare with a strict comparison (<): a tie goes to the second input
CompareStrict(r) ==
    LET t1 == get_log_time(slot[r][1])
        t2 == get_log_time(slot[r][2])
    IN  IF t1.err # "none"
        THEN Raise(r, t1.err) /\ UNCHANGED <<pending, emitted>>
        ELSE IF t2.err # "none"
        THEN Raise(r, t2.err) /\ UNCHANGED <<pending, emitted>>
        ELSE IF t1.instant < t2.instant
        THEN Yield(r, 1)
        ELSE Yield(r, 2)

\* get_log_time(file_log1) <= get_log_time(file_log2)
Compare(r) ==
    LET t1 == get_log_time(slot[r][1])
        t2 == get_log_time(slot[r][2])
    IN  IF t1.err # "none"
        THEN Raise(r, t1.err) /\ UNCHANGED <<pending, emitted>>
        ELSE IF t2.err # "none"
        THEN Raise(r, t2.err) /\ UNCHANGED <<pending, emitted>>
        ELSE IF t1.instant <= t2.instant
        THEN Yield(r, 1)
        ELSE Yield(r, 2)

\* Loop with `while file_log1 and file_log2`: stops when either slot is absent
LoopWhileBoth(r) ==
    /\ pc[r] = "loop"
    /\ LET a == Truthy(slot[r][1])
           b == Truthy(slot[r][2])
       IN  IF ~(a /\ b)
           THEN /\ pc' = [pc EXCEPT ![r] = "done"]
                /\ UNCHANGED <<err, pending, emitted>>
           ELSE Compare(r)
    /\ UNCHANGED <<inVars, fsVars, rpos, slot>>

\* one turn of `while file_log1 or file_log2`, up to the yield
Loop(r) ==
    /\ pc[r] = "loop"
    /\ LET a == Truthy(slot[r][1])
           b == Truthy(slot[r][2])
       IN  IF ~(a \/ b)
           THEN /\ pc' = [pc EXCEPT ![r] = "done"]
                /\ UNCHANGED <<err, pending, emitted>>
           ELSE IF a /\ b
           THEN Compare(r)
           ELSE IF ~a
           THEN Yield(r, 2)
           ELSE Yield(r, 1)
    /\ UNCHANGED <<inVars, fsVars, rpos, slot>>

\* WriteLine that keeps the line in a buffer which an abort discards
WriteLineBuffered(r) ==
    /\ pc[r] = "write"
    /\ pc' = [pc EXCEPT ![r] = "refill"]
    /\ UNCHANGED <<inVars, fsVars, err, rpos, slot, pending, emitted>>

\* line = json.dumps(log_entry).encode('utf-8') + b'\n'; file.write(line)
WriteLine(r) ==
    /\ pc[r] = "write"
    /\ fileContent' = WriteAt(fileContent, Len(emitted[r]), json_dumps(pending[r].val))
    /\ pc' = [pc EXCEPT ![r] = "refill"]
    /\ UNCHANGED <<inVars, dirExists, fileExists, err, rpos, slot, pending, emitted>>

\* Refill that pulls both readers
RefillBoth(r) ==
    /\ pc[r] = "refill"
    /\ LET a == next_log(r, 1)
           b == next_log(r, 2)
       IN  IF a.err # "none" \/ b.err # "none"
           THEN /\ Raise(r, IF a.err # "none" THEN a.err ELSE b.err)
                /\ UNCHANGED <<rpos, slot>>
           ELSE /\ slot' = [slot EXCEPT ![r] = [s \in Sides |-> IF s = 1 THEN a.val ELSE b.val]]
                /\ rpos' = [rpos EXCEPT ![r] = [s \in Sides |->
                               @[s] + IF s = 1 THEN a.pulled ELSE b.pulled]]
                /\ pc' = [pc EXCEPT ![r] = "loop"]
                /\ UNCHANGED err
    /\ pending' = [pending EXCEPT ![r] = NoPending]
    /\ UNCHANGED <<inVars, fsVars, emitted>>

\* Refill that pulls from the reader of the other side
RefillOther(r) ==
    /\ pc[r] = "refill"
    /\ Pull(r, 3 - pending[r].side, "loop")
    /\ pending' = [pending EXCEPT ![r] = NoPending]
    /\ UNCHANGED <<inVars, fsVars, emitted>>

\* the generator resumes after its yield: file_logS = next_log(...)
Refill(r) ==
    /\ pc[r] = "refill"
    /\ Pull(r, pending[r].side, "loop")
    /\ pending' = [pending EXCEPT ![r] = NoPending]
    /\ UNCHANGED <<inVars, fsVars, emitted>>

\* ------------------------------------------------------------ specification
InitFiles ==
    /\ isFile \in [Sides -> BOOLEAN]
    /\ files \in [Sides -> SeqsUpTo(InputLines, MaxLen)]
    /\ \A s \in Sides : ~isFile[s] => files[s] = <<>>

InitTarget ==
    /\ dirExists \in BOOLEAN
    /\ fileExists \in BOOLEAN
    /\ fileExists => dirExists
    /\ fileContent = IF fileExists THEN <<OldLine>> ELSE <<>>
    /\ fs0 = [dirExists |-> dirExists, fileExists |-> fileExists,
              fileContent |-> fileContent]

InitRuns(started) ==
    /\ pc = [r \in Procs |-> IF r \in started THEN "start" ELSE "off"]
    /\ err = [r \in Procs |-> "none"]
    /\ rpos = [r \in Procs |-> [s \in Sides |-> 0]]
    /\ slot = [r \in Procs |-> [s \in Sides |-> NoneVal]]
    /\ pending = [r \in Procs |-> NoPending]
    /\ emitted = [r \in Procs |-> <<>>]

Init == InitFiles /\ InitTarget /\ InitRuns({1})

Next ==
    \E r \in Procs :
        \/ Main(r)
        \/ CheckDir(r)
        \/ Mkdir(r)
        \/ OpenOutput(r)
        \/ Prime1(r)
        \/ Prime2(r)
        \/ Loop(r)
        \/ WriteLine(r)
        \/ Refill(r)

Spec == Init /\ [][Next]_vars

TypeOK ==
    /\ pc \in [Procs -> {"off", "start", "check_dir", "mkdir", "open_out", "prime1",
                         "prime2", "loop", "write", "refill", "done", "failed"}]
    /\ \A r \in Procs : \A s \in Sides : rpos[r][s] \in 0..Len(files[s])

\* ------------------------------------------------- vocabulary of the claims
\* the record that line i of input s decodes to
RecAt(s, i) == json_loads(files[s][i]).val

\* the k-th record run r yielded
EmittedRec(r, k) == RecAt(emitted[r][k][1], emitted[r][k][2])

\* the records run r has yielded so far, in order
EmittedRecs(r) == [k \in 1..Len(emitted[r]) |-> EmittedRec(r, k)]

\* how many records of input s run r has yielded
EmittedFrom(r, s) == Cardinality({k \in 1..Len(emitted[r]) : emitted[r][k][1] = s})

\* merged_log.jsonl read back line by line
OutRecs == [k \in 1..Len(fileContent) |-> json_loads(fileContent[k]).val]

HasInstant(v) == get_log_time(v).err = "none"
Instant(v) == get_log_time(v).instant

\* every line of input s decodes to a record with a well-formed timestamp
WellFormed(s) ==
    \A i \in 1..Len(files[s]) :
        json_loads(files[s][i]).ok /\ HasInstant(RecAt(s, i))

\* input s is in non-decreasing timestamp order
Ordered(s) ==
    /\ WellFormed(s)
    /\ \A i, j \in 1..Len(files[s]) :
           i < j => Instant(RecAt(s, i)) <= Instant(RecAt(s, j))

InputsOrdered == Ordered(1) /\ Ordered(2)

\* a sequence of records in non-decreasing timestamp order
NonDecreasing(recs) ==
    \A i, j \in 1..Len(recs) :
        i < j => /\ HasInstant(recs[i])
                 /\ HasInstant(recs[j])
                 /\ Instant(recs[i]) <= Instant(recs[j])

\* every adjacent pair (r_i, r_{i+1}) has Instant(r_i) <= Instant(r_{i+1})
AdjacentOrdered(recs) ==
    \A i \in 1..(Len(recs) - 1) :
        /\ HasInstant(recs[i])
        /\ HasInstant(recs[i + 1])
        /\ Instant(recs[i]) <= Instant(recs[i + 1])

MergeErrors == {"JSONDecodeError", "TypeError", "ValueError"}

\* run r has opened merged_log.jsonl for writing
Opened(r) ==
    \/ pc[r] \in {"prime1", "prime2", "loop", "write", "refill", "done"}
    \/ pc[r] = "failed" /\ err[r] \in MergeErrors

TargetUntouched ==
    /\ dirExists = fs0.dirExists
    /\ fileExists = fs0.fileExists
    /\ fileContent = fs0.fileContent

NothingRead(r) ==
    /\ \A s \in Sides : rpos[r][s] = 0
    /\ slot[r] = [s \in Sides |-> NoneVal]
    /\ emitted[r] = <<>>

\* ------------------------------------------------------------------- claims

\* C1: if both inputs are in non-decreasing timestamp order with well-formed
\* timestamps, then at every point of the run the records yielded so far by
\* sorted_log_generator, and the lines written so far by create_output_file,
\* are in non-decreasing timestamp order.
C1_OrderedAtEveryPoint ==
    \A r \in Procs :
        InputsOrdered =>
            /\ NonDecreasing(EmittedRecs(r))
            /\ Opened(r) => NonDecreasing(OutRecs)

\* a finished merge of two ordered inputs that truly interleaves: a record of
\* the second input was yielded before a later record of the first
C1_Witness ==
    /\ pc[1] = "done"
    /\ InputsOrdered
    /\ Len(fileContent) = Len(files[1]) + Len(files[2])
    /\ \E k \in 1..(Len(emitted[1]) - 1) :
           /\ emitted[1][k][1] = 2
           /\ emitted[1][k + 1][1] = 1
           /\ Instant(EmittedRec(1, k)) < Instant(EmittedRec(1, k + 1))

\* C2 as stated: whatever the two inputs are, every adjacent pair of output
\* records of a merge that completed has Instant(r_i) <= Instant(r_{i+1}).
\* Taken over the inputs whose records all have an Instant, in any order.
C2_OrderWhateverInputs ==
    \A r \in Procs :
        (pc[r] = "done" /\ WellFormed(1) /\ WellFormed(2)) =>
            AdjacentOrdered(OutRecs)

\* C2 as amended: for every merge that completed and whose two inputs are
\* each in non-decreasing timestamp order, every adjacent pair of output
\* records has Instant(r_i) <= Instant(r_{i+1}).
C2_OrderOfOrderedInputs ==
    \A r \in Procs :
        (pc[r] = "done" /\ InputsOrdered) => AdjacentOrdered(OutRecs)

C2_Witness ==
    /\ pc[1] = "done"
    /\ InputsOrdered
    /\ Len(files[1]) >= 2
    /\ Len(files[2]) >= 2
    /\ Len(fileContent) >= 4
    /\ Instant(OutRecs[1]) < Instant(OutRecs[Len(fileContent)])

\* C3 as stated: in the output of a merge that completed, a record of the
\* first input comes before every record of the second input that has the
\* same timestamp.
C3_TieBreakWhateverInputs ==
    \A r \in Procs :
        pc[r] = "done" =>
            \A i, j \in 1..Len(emitted[r]) :
                (/\ emitted[r][i][1] = 1
                 /\ emitted[r][j][1] = 2
                 /\ HasInstant(EmittedRec(r, i))
                 /\ HasInstant(EmittedRec(r, j))
                 /\ Instant(EmittedRec(r, i)) = Instant(EmittedRec(r, j)))
                    => i < j

\* C3 as amended: the same, for merges whose two inputs are each in
\* non-decreasing timestamp order.
C3_TieBreakOfOrderedInputs ==
    \A r \in Procs :
        (pc[r] = "done" /\ InputsOrdered) =>
            \A i, j \in 1..Len(emitted[r]) :
                (/\ emitted[r][i][1] = 1
                 /\ emitted[r][j][1] = 2
                 /\ Instant(EmittedRec(r, i)) = Instant(EmittedRec(r, j)))
                    => i < j

\* a finished merge of ordered inputs whose output holds a tie across sources
C3_Witness ==
    /\ pc[1] = "done"
    /\ InputsOrdered
    /\ \E i, j \in 1..Len(emitted[1]) :
           /\ emitted[1][i][1] = 1
           /\ emitted[1][j][1] = 2
           /\ Instant(EmittedRec(1, i)) = Instant(EmittedRec(1, j))
           /\ emitted[1][i][2] = Len(files[1])
           /\ emitted[1][j][2] = 1
           /\ Len(files[1]) >= 2

\* C4: when a merge completes, the output has as many records as the two
\* inputs together, and every line of every input was yielded exactly once
\* and stands in the output with the value it decodes to.
C4_Conservation ==
    \A r \in Procs :
        pc[r] = "done" =>
            /\ Len(fileContent) = Len(files[1]) + Len(files[2])
            /\ \A s \in Sides : \A i \in 1..Len(files[s]) :
                   /\ Cardinality({k \in 1..Len(emitted[r]) : emitted[r][k] = <<s, i>>}) = 1
                   /\ \E k \in 1..Len(fileContent) :
                          /\ k <= Len(emitted[r])
                          /\ emitted[r][k] = <<s, i>>
                          /\ OutRecs[k] = RecAt(s, i)

\* C5: a completed merge of an empty input with a non-empty one has as its
\* output the records of the non-empty input, in the same order.
C5_Exhaustion ==
    \A r \in Procs :
        pc[r] = "done" =>
            \A s \in Sides :
                (files[s] = <<>> /\ files[3 - s] # <<>>) =>
                    OutRecs = [i \in 1..Len(files[3 - s]) |-> RecAt(3 - s, i)]

\* C6: if the output directory exists when create_output_file is called, the
\* run fails without creating or writing any file and without pulling any
\* record, and the directory and its contents stay as they were.
C6_NoClobber ==
    fs0.dirExists =>
        /\ TargetUntouched
        /\ \A r \in Procs :
               /\ NothingRead(r)
               /\ pc[r] \in {"off", "start", "check_dir", "failed"}
               /\ pc[r] = "failed" => err[r] \in {"InputsMissing", "DirExists"}

\* the run was refused on a directory that already held a merged_log.jsonl,
\* with two readable non-empty inputs
C6_Witness ==
    /\ fs0.dirExists
    /\ fs0.fileExists
    /\ pc[1] = "failed"
    /\ err[1] = "DirExists"
    /\ files[1] # <<>>
    /\ files[2] # <<>>
    /\ fileContent = <<OldLine>>

\* C7: a run that pulled a record whose timestamp is missing or unparsable
\* never completes successfully.
C7_BadTimestampIsFatal ==
    \A r \in Procs :
        pc[r] = "done" =>
            \A s \in Sides : \A i \in 1..rpos[r][s] : HasInstant(RecAt(s, i))

\* C8: in every state, for each input, the records pulled from its reader and
\* not yet yielded are at most one (so at most two in total).
C8_BoundedPeek ==
    \A r \in Procs : \A s \in Sides :
        /\ rpos[r][s] - EmittedFrom(r, s) \in {0, 1}
        /\ (rpos[r][1] - EmittedFrom(r, 1)) + (rpos[r][2] - EmittedFrom(r, 2)) <= 2

\* both slots hold a pending record after records of both inputs were yielded
C8_Witness ==
    /\ pc[1] = "loop"
    /\ EmittedFrom(1, 1) >= 1
    /\ EmittedFrom(1, 2) >= 1
    /\ \A s \in Sides : rpos[1][s] - EmittedFrom(1, s) = 1

\* C9: if an input path is not an existing file, main fails before the merge
\* begins: the output target stays as it was (existing or not), and no input
\* is read.
C9_InputsMissing ==
    (~isFile[1] \/ ~isFile[2]) =>
        /\ TargetUntouched
        /\ \A r \in Procs :
               /\ NothingRead(r)
               /\ pc[r] \in {"off", "start", "failed"}
               /\ pc[r] = "failed" => err[r] = "InputsMissing"

\* only the first input is missing, the second has records, no output
\* directory exists, and the run has failed
C9_Witness ==
    /\ ~isFile[1]
    /\ isFile[2]
    /\ files[2] # <<>>
    /\ ~fs0.dirExists
    /\ pc[1] = "failed"
    /\ err[1] = "InputsMissing"

\* C10: once a reader or timestamp failure has aborted the merge, the output
\* directory and merged_log.jsonl exist and the file holds exactly the
\* records yielded before the failure, one line each, in the order yielded;
\* this stays so in every later state.
C10_PartialOutputKept ==
    \A r \in Procs :
        (pc[r] = "failed" /\ err[r] \in MergeErrors) =>
            /\ dirExists
            /\ fileExists
            /\ Len(fileContent) = Len(emitted[r])
            /\ \A k \in 1..Len(emitted[r]) :
                   fileContent[k] = json_dumps(EmittedRec(r, k))

\* a timestamp failure after two records were written
C10_Witness ==
    /\ pc[1] = "failed"
    /\ err[1] \in {"TypeError", "ValueError"}
    /\ Len(emitted[1]) >= 2
    /\ Len(fileContent) >= 2

\* C11: a peek slot is treated as absent exactly when its reader has reached
\* end of file, so that every decoded record, whatever its content, is
\* treated as present, is yielded, and has its slot refilled: when the merge
\* ends, every record pulled was yielded.
C11_AbsentIffExhausted ==
    \A r \in Procs : \A s \in Sides :
        /\ pc[r] = "loop" => (Truthy(slot[r][s]) <=> slot[r][s] # NoneVal)
        /\ pc[r] = "done" => EmittedFrom(r, s) = rpos[r][s]

\* C12: at every point, the records yielded from one input are a prefix of
\* that input in its own order (the k-th record yielded from input s is its
\* k-th line), whatever the timestamps are, and the lines written are the
\* records yielded, in that order.
C12_Interleaving ==
    \A r \in Procs : \A k \in 1..Len(emitted[r]) :
        /\ emitted[r][k][2] =
               Cardinality({j \in 1..k : emitted[r][j][1] = emitted[r][k][1]})
        /\ (Opened(r) /\ k <= Len(fileContent)) => OutRecs[k] = EmittedRec(r, k)

\* a finished merge that switched from the second input back to the first,
\* where the first input is out of order and holds a tie with the second
C12_Witness ==
    /\ pc[1] = "done"
    /\ Len(files[1]) >= 2
    /\ Len(emitted[1]) = Len(files[1]) + Len(files[2])
    /\ WellFormed(1)
    /\ WellFormed(2)
    /\ Instant(RecAt(1, 1)) > Instant(RecAt(1, 2))
    /\ \E j \in 1..Len(files[2]) : Instant(RecAt(2, j)) = Instant(RecAt(1, 2))
    /\ \E k \in 1..(Len(emitted[1]) - 1) :
           emitted[1][k][1] = 2 /\ emitted[1][k + 1][1] = 1

\* run r is about to pull reader s
AtPull(r, s) ==
    \/ pc[r] = "prime1" /\ s = 1
    \/ pc[r] = "prime2" /\ s = 2
    \/ pc[r] = "refill" /\ pending[r].side = s

\* the next line of reader s does not decode
NextLineInvalid(r, s) ==
    /\ rpos[r][s] < Len(files[s])
    /\ ~json_loads(files[s][rpos[r][s] + 1]).ok

\* no reader is ever past a line that does not decode, and no record of that
\* line or of a later line of the same input is ever yielded
NeverPastInvalid ==
    \A r \in Procs : \A s \in Sides : \A i \in 1..Len(files[s]) :
        ~json_loads(files[s][i]).ok =>
            /\ rpos[r][s] < i
            /\ \A k \in 1..Len(emitted[r]) :
                   emitted[r][k][1] = s => emitted[r][k][2] < i

\* the pull of a line that does not decode ends the run with JSONDecodeError
InvalidPullAborts ==
    \A r \in Procs : \A s \in Sides :
        (AtPull(r, s) /\ NextLineInvalid(r, s) /\ pc'[r] # pc[r]) =>
            /\ pc'[r] = "failed"
            /\ err'[r] = "JSONDecodeError"
            /\ emitted'[r] = emitted[r]
            /\ rpos'[r] = rpos[r]

\* C13: a line that fails to decode raises at the moment it is pulled and
\* aborts the run; it is never skipped, and no record of it or of a later
\* line of the same input is ever yielded.
C13_DecodeErrorAborts == []NeverPastInvalid /\ [][InvalidPullAborts]_vars

\* the run was aborted by a refill that met a line that does not decode,
\* after a record had been written
C13_Witness ==
    /\ pc[1] = "failed"
    /\ err[1] = "JSONDecodeError"
    /\ Len(fileContent) >= 1
    /\ \E s \in Sides : rpos[1][s] >= 1 /\ NextLineInvalid(1, s)

\* the input the last yielded record of run r came from
LastSide(r) == emitted[r][Len(emitted[r])][1]

\* a yield passes on exactly one record and pulls no reader; the write pulls
\* no reader; the refill that follows pulls the reader of the yielded slot at
\* most once and leaves the other slot and the other reader alone
OneYieldOneRefill ==
    \A r \in Procs :
        /\ (pc[r] = "loop" /\ pc'[r] = "write") =>
               /\ Len(emitted'[r]) = Len(emitted[r]) + 1
               /\ slot'[r] = slot[r]
               /\ rpos'[r] = rpos[r]
        /\ (pc[r] = "write" /\ pc'[r] # "write") =>
               /\ pc'[r] = "refill"
               /\ emitted'[r] = emitted[r]
               /\ slot'[r] = slot[r]
               /\ rpos'[r] = rpos[r]
        /\ (pc[r] = "refill" /\ pc'[r] # "refill") =>
               LET s == LastSide(r)
                   o == 3 - s
               IN  /\ emitted'[r] = emitted[r]
                   /\ slot'[r][o] = slot[r][o]
                   /\ rpos'[r][o] = rpos[r][o]
                   /\ rpos'[r][s] - rpos[r][s] \in {0, 1}
                   /\ (pc'[r] = "loop" /\ rpos[r][s] < Len(files[s])) =>
                          /\ rpos'[r][s] = rpos[r][s] + 1
                          /\ slot'[r][s] = RecAt(s, rpos[r][s] + 1)

\* C14: each merge step yields exactly one record and then refills only the
\* slot it yielded from; the other slot and the other reader's position are
\* unchanged, so each pull of a merged record after priming pulls exactly one
\* reader once.
C14_RefillOnlyYieldedSlot == [][OneYieldOneRefill]_vars

\* after a record of the second input was yielded, its slot holds the next
\* record of the second input while the first slot still holds its record
C14_Witness ==
    /\ pc[1] = "loop"
    /\ Len(emitted[1]) >= 2
    /\ LastSide(1) = 2
    /\ rpos[1][2] = EmittedFrom(1, 2) + 1
    /\ rpos[1][1] = EmittedFrom(1, 1) + 1
    /\ Truthy(slot[1][1])
    /\ Truthy(slot[1][2])

\* -------------------------------------------------- merges that must finish
\* Inputs whose lines all decode to records with a well-formed timestamp.
\* The program is a single synchronous thread: a step that can be taken is
\* taken, which is weak fairness of Next.
WellFormedLines == {InputLine(LogDict(t)) : t \in Times}

InitWellFormedFiles ==
    /\ isFile \in [Sides -> BOOLEAN]
    /\ files \in [Sides -> SeqsUpTo(WellFormedLines, MaxLen)]
    /\ \A s \in Sides : ~isFile[s] => files[s] = <<>>

InitLive == InitWellFormedFiles /\ InitTarget /\ InitRuns({1})

SpecLive == InitLive /\ [][Next]_vars /\ WF_vars(Next)

\* the generator has returned: both slots are None, both readers are at end
\* of file, and as many records were yielded as the inputs hold
Terminal(r) ==
    /\ pc[r] = "done"
    /\ \A s \in Sides : slot[r][s] = NoneVal /\ rpos[r][s] = Len(files[s])
    /\ Len(emitted[r]) = Len(files[1]) + Len(files[2])

\* C15: for two finite inputs of well-formed records, a merge that has begun
\* eventually reaches the terminal state (both slots absent, both readers
\* exhausted) after exactly as many yields as there are input records, and
\* it never ends in any other state.
C15_Terminates ==
    \A r \in Procs :
        /\ (pc[r] = "prime1") ~> Terminal(r)
        /\ [](pc[r] = "done" => Terminal(r))

\* the merge of two inputs of full length has ended
C15_Witness ==
    /\ Terminal(1)
    /\ Len(files[1]) = MaxLen
    /\ Len(files[2]) = MaxLen

\* ------------------------------------------------ two runs, one output target
\* Two runs of main() on the same inputs and the same output directory, their
\* steps interleaved in any way.  Lines either fail to decode or are
\* well-formed records.
RaceLines == {InvalidLine} \cup WellFormedLines

InitRaceFiles ==
    /\ isFile \in [Sides -> BOOLEAN]
    /\ files \in [Sides -> SeqsUpTo(RaceLines, MaxLen)]
    /\ \A s \in Sides : ~isFile[s] => files[s] = <<>>

InitRace == InitRaceFiles /\ InitTarget /\ InitRuns({1, 2})

SpecRace == InitRace /\ [][Next]_vars

\* run r has created the output directory
CreatedDir(r) == pc[r] = "open_out" \/ Opened(r)

\* the lines of merged_log.jsonl are those run r has written, and no others
FileIsOf(r) ==
    /\ fileExists
    /\ Len(fileContent) = IF pc[r] = "write" THEN Len(emitted[r]) - 1
                                              ELSE Len(emitted[r])
    /\ \A k \in 1..Len(fileContent) : fileContent[k] = json_dumps(EmittedRec(r, k))

DirErrors == {"DirExists", "MkdirExists"}

\* C16: of two runs that target the same output directory, interleaved in any
\* way (also between the existence test and the mkdir), at most one creates
\* the directory and writes merged_log.jsonl; the other ends with an error
\* and never opens or truncates the file.
C16_ExclusiveCreation ==
    \A r1, r2 \in Procs :
        (r1 # r2 /\ CreatedDir(r1)) =>
            /\ pc[r2] \in {"off", "start", "check_dir", "mkdir", "failed"}
            /\ pc[r2] = "failed" => err[r2] \in DirErrors
            /\ Opened(r1) => FileIsOf(r1)

\* both runs passed the existence test; run 1 made the directory and wrote
\* its output, run 2 was refused by mkdir
C16_Witness ==
    /\ ~fs0.dirExists
    /\ pc[1] = "done"
    /\ Len(fileContent) >= 2
    /\ pc[2] = "failed"
    /\ err[2] = "MkdirExists"

\* ------------------------------------------------ one run after the other
\* The same two runs in sequence: a run starts only when every run before it
\* has ended.
Ended(r) == pc[r] \in {"done", "failed"}

MayStep(r) == \A q \in Procs : q < r => Ended(q)

NextSeq ==
    \E r \in Procs :
        /\ MayStep(r)
        /\ \/ Main(r)
           \/ CheckDir(r)
           \/ Mkdir(r)
           \/ OpenOutput(r)
           \/ Prime1(r)
           \/ Prime2(r)
           \/ Loop(r)
           \/ WriteLine(r)
           \/ Refill(r)

SpecSeq == InitRace /\ [][NextSeq]_vars

\* C17: once a run has created the output directory and ended, by success or
\* by a failure (also one before the first record was written), every later
\* run on the same output directory fails at the existence test, never
\* creates or opens anything, and merged_log.jsonl stays exactly as the
\* earlier run left it.
C17_CreatedOnce ==
    \A r1, r2 \in Procs :
        (r1 < r2 /\ Ended(r1) /\ Opened(r1)) =>
            /\ pc[r2] \in {"start", "check_dir", "failed"}
            /\ pc[r2] = "failed" => err[r2] = "DirExists"
            /\ dirExists
            /\ FileIsOf(r1)

\* run 1 made the directory and was aborted by the first line it pulled,
\* leaving an empty merged_log.jsonl; run 2 came later and was refused
C17_Witness ==
    /\ pc[1] = "failed"
    /\ err[1] = "JSONDecodeError"
    /\ emitted[1] = <<>>
    /\ fileExists
    /\ fileContent = <<>>
    /\ pc[2] = "failed"
    /\ err[2] = "DirExists"
====
